---- MODULE Spec2Model ----
(***************************************************************************)
(* The interactive (REPL) driver of the Hash compiler, src/src/main.rs:    *)
(* start-up (main, lines 46-78), the read loop (lines 80-102) and the      *)
(* dispatch of one input line (execute, lines 106-166).                    *)
(*                                                                         *)
(* main.rs is the only file of the crate under src/.  The command          *)
(* classifier (mod command), the session state behind CompilerInterface    *)
(* (add_interactive_block, settings, diagnostics, source map) and the      *)
(* pipeline driver (Compiler::run) live elsewhere in the repository and    *)
(* are modelled from the written specification of the driver.              *)
(***************************************************************************)
EXTENDS Integers, Sequences, FiniteSets, TLC

\* ------------------------------------------------------------------ bounds

\* Largest configured worker count the model draws (settings.worker_count).
MaxWorkers == 1

\* Largest number of interactive blocks registered in one session.
MaxBlocks == 2

\* Largest number of sub-jobs one stage submits to the worker pool.
MaxJobs == 2

\* ------------------------------------------------------------- stage kinds

\* The ordered stage enumeration {Parse, Desugar, Analysis, ...}; "Full"
\* stands for the stages after Analysis.
StageOrder == <<"Parse", "Desugar", "Analysis", "Full">>

StageKinds == {StageOrder[i] : i \in 1..Len(StageOrder)}

StageIndex(s) == CHOOSE i \in 1..Len(StageOrder) : StageOrder[i] = s

\* ------------------------------------------------------------ input lines

\* A line is a sequence of one-character strings.
Lines ==
    { <<>>,
      <<" ", " ">>,
      <<":", "q">>,
      <<":", "q", "u", "i", "t">>,
      <<":", "c">>,
      <<":", "v">>,
      <<":", "t", " ", "x">>,
      <<":", "t", "y", "p", "e", " ", "x">>,
      <<":", "d", " ", "x">>,
      <<":", "d", "i", "s", "p", "l", "a", "y", " ", "x">>,
      <<"x">>,
      <<":", "t">>,
      <<":", "d", " ">>,
      <<":", "z">> }

\* The value of `line` when the read returned no line.
NoLine == <<"<none>">>

IsWhitespace(c) == c = " "

\* str::is_empty
IsEmpty(s) == Len(s) = 0

RECURSIVE TrimStart(_)
TrimStart(s) ==
    IF s # <<>> /\ IsWhitespace(Head(s)) THEN TrimStart(Tail(s)) ELSE s

RECURSIVE TrimEnd(_)
TrimEnd(s) ==
    IF s # <<>> /\ IsWhitespace(s[Len(s)])
    THEN TrimEnd(SubSeq(s, 1, Len(s) - 1)) ELSE s

Trim(s) == TrimEnd(TrimStart(s))

\* The line is empty once trimmed.
IsBlank(s) == Trim(s) = <<>>

RECURSIVE FirstToken(_)
FirstToken(s) ==
    IF s = <<>> \/ IsWhitespace(Head(s)) THEN <<>>
    ELSE <<Head(s)>> \o FirstToken(Tail(s))

\* What follows the first token, trimmed.
Argument(s) == Trim(SubSeq(s, Len(FirstToken(s)) + 1, Len(s)))

NoExpr == <<>>

\* InteractiveCommand::try_from: the tagged command of one line.
Classify(input) ==
    LET t   == Trim(input)
        tok == FirstToken(t)
        arg == Argument(t)
    IN  IF t = <<>> \/ Head(t) # ":"
        THEN [kind |-> "Code", expr |-> input]
        ELSE IF tok \in {<<":", "q">>, <<":", "q", "u", "i", "t">>}
        THEN [kind |-> "Quit", expr |-> NoExpr]
        ELSE IF tok \in {<<":", "c">>, <<":", "c", "l", "e", "a", "r">>}
        THEN [kind |-> "Clear", expr |-> NoExpr]
        ELSE IF tok \in {<<":", "v">>, <<":", "v", "e", "r", "s", "i", "o", "n">>}
        THEN [kind |-> "Version", expr |-> NoExpr]
        ELSE IF tok \in {<<":", "t">>, <<":", "t", "y", "p", "e">>}
        THEN IF arg = <<>> THEN [kind |-> "Malformed", expr |-> NoExpr]
             ELSE [kind |-> "Type", expr |-> arg]
        ELSE IF tok \in {<<":", "d">>, <<":", "d", "i", "s", "p", "l", "a", "y">>}
        THEN IF arg = <<>> THEN [kind |-> "Malformed", expr |-> NoExpr]
             ELSE [kind |-> "Display", expr |-> arg]
        ELSE [kind |-> "Malformed", expr |-> NoExpr]

NoCommand == [kind |-> "None", expr |-> NoExpr]

PipelineKinds == {"Type", "Display", "Code"}

\* ---------------------------------------------------------------- state

VARIABLES
    pc,                 \* where main is: start, idle (at readline), running
                        \* (inside compiler.run), exited, fatal, panicked
    exit_code,          \* the process exit status, -1 while it runs
    settings,           \* CompilerSettings: dump flag, stage, worker_count
    diagnostics,        \* the session's diagnostics sequence
    interactive_blocks, \* the registered interactive blocks, in id order
    source_map,         \* the session's source map
    pool,               \* the worker pool's thread count, 0 before it is built
    line,               \* the line of the current turn
    command,            \* the command of the current turn
    run,                \* the pipeline run in flight
    jobs,               \* the sub-jobs of the stage in progress
    turnLog,            \* history: the steps of the current turn, in order
    out,                \* what the current turn printed
    prev                \* history: the previous turn's command kind when it
                        \* ran the pipeline, and the settings in force
                        \* before the current dispatch

vars == <<pc, exit_code, settings, diagnostics, interactive_blocks,
          source_map, pool, line, command, run, jobs, turnLog, out, prev>>

session == <<settings, diagnostics, interactive_blocks, source_map>>

NoRun == [id |-> 0, ran |-> <<>>, staging |-> FALSE, fatal |-> FALSE]

NoJobs == [pending |-> 0, running |-> 0]

\* CompilerSettings::new() for a configured worker count: nothing is dumped
\* and a line of code is taken through Analysis.
CompilerSettingsNew(w) == [dump |-> FALSE, stage |-> "Analysis", worker_count |-> w]

\* main, lines 50-51: the dummy source map and the settings.  The configured
\* worker count is set outside main.rs and is drawn from its range.
Init ==
    /\ pc = "start"
    /\ exit_code = -1
    /\ \E w \in 0..MaxWorkers : settings = CompilerSettingsNew(w)
    /\ diagnostics = <<>>
    /\ interactive_blocks = <<>>
    /\ source_map = <<>>
    /\ pool = 0
    /\ line = NoLine
    /\ command = NoCommand
    /\ run = NoRun
    /\ jobs = NoJobs
    /\ turnLog = <<>>
    /\ out = <<>>
    /\ prev = [kind |-> "None", settings |-> settings]

\* ----------------------------------------------------- steps of the code

\* A pool built without the extra thread.
BuildPoolNoExtra(worker_count) == worker_count

\* main, lines 61-65: ThreadPoolBuilder::num_threads(worker_count + 1).
BuildPool(worker_count) == worker_count + 1

\* add_interactive_block on the block table: a new entry under the next id.
AddInteractiveBlock(blocks, expr) ==
    Append(blocks, [id |-> Len(blocks) + 1, text |-> expr, artifacts |-> <<>>])

\* add_interactive_block on the source map: the block's text becomes a source.
AddInteractiveSource(sources, expr) ==
    Append(sources, [origin |-> "Interactive", text |-> expr])

\* A dispatch that adds the block twice.
RegisterBlockTwice(blocks, expr) ==
    AddInteractiveBlock(AddInteractiveBlock(blocks, expr), expr)

\* execute, lines 131-133: the block is added to the state once.
RegisterBlock(blocks, expr) == AddInteractiveBlock(blocks, expr)

\* A dispatch that hands the run the id of the first block.
InteractiveIdFirst(blocks) == blocks[1].id

\* execute, lines 132-133: the id add_interactive_block returned.
InteractiveId(blocks) == blocks[Len(blocks)].id

\* A selector whose `:d` branch writes the dump flag only.
SelectSettingsDisplayDumpOnly(kind, s) ==
    CASE kind = "Type"    -> [s EXCEPT !.dump = FALSE, !.stage = "Analysis"]
      [] kind = "Display" -> [s EXCEPT !.dump = TRUE]
      [] OTHER            -> [s EXCEPT !.dump = FALSE]

\* A selector whose `:t` branch writes the stage only.
SelectSettingsTypeStageOnly(kind, s) ==
    CASE kind = "Type"    -> [s EXCEPT !.stage = "Analysis"]
      [] kind = "Display" -> [s EXCEPT !.dump = TRUE, !.stage = "Parse"]
      [] OTHER            -> [s EXCEPT !.dump = FALSE]

\* execute, lines 138-152: the settings written for the command.
SelectSettings(kind, s) ==
    CASE kind = "Type"    -> [s EXCEPT !.dump = FALSE, !.stage = "Analysis"]
      [] kind = "Display" -> [s EXCEPT !.dump = TRUE, !.stage = "Parse"]
      [] OTHER            -> [s EXCEPT !.dump = FALSE]

\* A dispatch that leaves the old diagnostics in place.
KeepDiagnostics(diags) == diags

\* execute, line 156: ctx.diagnostics_mut().clear().
ClearDiagnostics(diags) == <<>>

\* What every turn records: the line, its command, the steps taken, the
\* output, and (history) the turn before it.
Turn(l, c, log, o) ==
    /\ line' = l
    /\ command' = c
    /\ turnLog' = log
    /\ out' = o
    /\ prev' = [kind |-> IF command.kind \in PipelineKinds
                          THEN command.kind ELSE "None",
                 settings |-> settings]

\* -------------------------------------------------------------- start-up

\* main, lines 50-78: every start-up step succeeds; the banner is printed.
StartupOk ==
    /\ pc = "start"
    /\ pool' = BuildPool(settings.worker_count)
    /\ pc' = "idle"
    /\ out' = <<"Version">>
    /\ UNCHANGED <<exit_code, settings, diagnostics, interactive_blocks,
                   source_map, line, command, run, jobs, turnLog, prev>>

\* main, lines 55-56 with handle_error, lines 39-44: the entry point or the
\* workspace fails; emit_fatal_error reports and ends the process.
StartupFatal ==
    /\ pc = "start"
    /\ \E step \in {"entry_point", "workspace"} :
          out' = <<"fatal report", step>>
    /\ pc' = "fatal"
    /\ exit_code' = 1
    /\ UNCHANGED <<settings, diagnostics, interactive_blocks, source_map,
                   pool, line, command, run, jobs, turnLog, prev>>

\* main, lines 61-65: build() fails and unwrap() panics.
StartupPoolPanic ==
    /\ pc = "start"
    /\ pc' = "panicked"
    /\ exit_code' = 101
    /\ out' = <<"panic">>
    /\ UNCHANGED <<settings, diagnostics, interactive_blocks, source_map,
                   pool, line, command, run, jobs, turnLog, prev>>

\* ------------------------------------------------------------- read loop

\* An arm for Interrupted and Eof that prints and forgets to break.
ReadInterruptedNoBreak ==
    /\ pc = "idle"
    /\ \E sig \in {"Interrupted", "Eof"} :
          Turn(NoLine, NoCommand, <<sig>>, <<"Exiting!">>)
    /\ UNCHANGED <<pc, exit_code, session, pool, run, jobs>>

\* main, lines 88-91: Interrupted or Eof ends the loop; main returns.
ReadInterrupted ==
    /\ pc = "idle"
    /\ \E sig \in {"Interrupted", "Eof"} :
          Turn(NoLine, NoCommand, <<sig>>, <<"Exiting!">>)
    /\ pc' = "exited"
    /\ exit_code' = 0
    /\ UNCHANGED <<session, pool, run, jobs>>

\* A loop that treats every read error as the end of the input.
ReadErrorBreaks ==
    /\ pc = "idle"
    /\ Turn(NoLine, NoCommand, <<"read_error">>, <<"report">>)
    /\ pc' = "exited"
    /\ exit_code' = 0
    /\ UNCHANGED <<session, pool, run, jobs>>

\* main, lines 92-100: any other read error is printed as a report.
ReadError ==
    /\ pc = "idle"
    /\ Turn(NoLine, NoCommand, <<"read_error">>, <<"report">>)
    /\ UNCHANGED <<pc, exit_code, session, pool, run, jobs>>

\* execute, lines 108-110: a line with no content returns at once.
ExecuteEmpty ==
    /\ pc = "idle"
    /\ \E l \in Lines :
          /\ IsEmpty(l)
          /\ Turn(l, NoCommand, <<>>, <<>>)
    /\ UNCHANGED <<pc, exit_code, session, pool, run, jobs>>

\* execute, line 115 and goodbye, lines 32-35.
ExecuteQuit ==
    /\ pc = "idle"
    /\ \E l \in Lines :
          /\ ~IsEmpty(l)
          /\ Classify(l).kind = "Quit"
          /\ Turn(l, Classify(l), <<"classify">>, <<"Goodbye!">>)
    /\ pc' = "exited"
    /\ exit_code' = 0
    /\ UNCHANGED <<session, pool, run, jobs>>

\* execute, lines 116-124: the screen is cleared.
ExecuteClear ==
    /\ pc = "idle"
    /\ \E l \in Lines :
          /\ ~IsEmpty(l)
          /\ Classify(l).kind = "Clear"
          /\ Turn(l, Classify(l), <<"classify">>, <<"clear">>)
    /\ UNCHANGED <<pc, exit_code, session, pool, run, jobs>>

\* execute, lines 119-123: the clearing command cannot be started, status()
\* is an error and unwrap() panics.
ExecuteClearPanic ==
    /\ pc = "idle"
    /\ \E l \in Lines :
          /\ ~IsEmpty(l)
          /\ Classify(l).kind = "Clear"
          /\ Turn(l, Classify(l), <<"classify">>, <<"clear", "panic">>)
    /\ pc' = "panicked"
    /\ exit_code' = 101
    /\ UNCHANGED <<session, pool, run, jobs>>

\* A version arm that goes on to clear the diagnostics, as the arm of the
\* pipeline commands does.
ExecuteVersionClearing ==
    /\ pc = "idle"
    /\ \E l \in Lines :
          /\ ~IsEmpty(l)
          /\ Classify(l).kind = "Version"
          /\ Turn(l, Classify(l), <<"classify">>, <<"Version">>)
    /\ diagnostics' = ClearDiagnostics(diagnostics)
    /\ UNCHANGED <<pc, exit_code, settings, interactive_blocks, source_map,
                   pool, run, jobs>>

\* execute, line 125 and print_version, lines 27-29.
ExecuteVersion ==
    /\ pc = "idle"
    /\ \E l \in Lines :
          /\ ~IsEmpty(l)
          /\ Classify(l).kind = "Version"
          /\ Turn(l, Classify(l), <<"classify">>, <<"Version">>)
    /\ UNCHANGED <<pc, exit_code, session, pool, run, jobs>>

\* An error arm that also drops the diagnostics of the last run.
ExecuteMalformedClearing ==
    /\ pc = "idle"
    /\ \E l \in Lines :
          /\ ~IsEmpty(l)
          /\ Classify(l).kind = "Malformed"
          /\ Turn(l, Classify(l), <<"classify">>, <<"report">>)
    /\ diagnostics' = ClearDiagnostics(diagnostics)
    /\ UNCHANGED <<pc, exit_code, settings, interactive_blocks, source_map,
                   pool, run, jobs>>

\* execute, lines 160-162: the classifier's error is printed as a report.
ExecuteMalformed ==
    /\ pc = "idle"
    /\ \E l \in Lines :
          /\ ~IsEmpty(l)
          /\ Classify(l).kind = "Malformed"
          /\ Turn(l, Classify(l), <<"classify">>, <<"report">>)
    /\ UNCHANGED <<pc, exit_code, session, pool, run, jobs>>

\* A loop that reads and dispatches the next line while a run is in flight.
ExecutePipelineOverlapping ==
    /\ pc \in {"idle", "running"}
    /\ Len(interactive_blocks) < MaxBlocks
    /\ \E l \in Lines :
          /\ ~IsEmpty(l)
          /\ Classify(l).kind \in PipelineKinds
          /\ Turn(l, Classify(l),
                  <<"classify", "register", "settings", "clear", "run">>, <<>>)
          /\ interactive_blocks' = RegisterBlock(interactive_blocks, Classify(l).expr)
          /\ source_map' = AddInteractiveSource(source_map, Classify(l).expr)
          /\ settings' = SelectSettings(Classify(l).kind, settings)
    /\ diagnostics' = ClearDiagnostics(diagnostics)
    /\ run' = [NoRun EXCEPT !.id = InteractiveId(interactive_blocks')]
    /\ jobs' = NoJobs
    /\ pc' = "running"
    /\ UNCHANGED <<exit_code, pool>>

\* execute, lines 126-157: the block is registered, the settings are
\* written, the diagnostics are cleared and compiler.run is entered.
ExecutePipeline ==
    /\ pc = "idle"
    /\ Len(interactive_blocks) < MaxBlocks
    /\ \E l \in Lines :
          /\ ~IsEmpty(l)
          /\ Classify(l).kind \in PipelineKinds
          /\ Turn(l, Classify(l),
                  <<"classify", "register", "settings", "clear", "run">>, <<>>)
          /\ interactive_blocks' = RegisterBlock(interactive_blocks, Classify(l).expr)
          /\ source_map' = AddInteractiveSource(source_map, Classify(l).expr)
          /\ settings' = SelectSettings(Classify(l).kind, settings)
    /\ diagnostics' = ClearDiagnostics(diagnostics)
    /\ run' = [NoRun EXCEPT !.id = InteractiveId(interactive_blocks')]
    /\ jobs' = NoJobs
    /\ pc' = "running"
    /\ UNCHANGED <<exit_code, pool>>

\* -------------------------------------------------------- pipeline driver

\* The stage that runs next: the one after the stages already begun.
NextStage(r) == StageOrder[Len(r.ran) + 1]

\* A driver that goes on after a fatal diagnostic.
RunFinishedIgnoringFatal(r, target) == Len(r.ran) >= StageIndex(target)

\* The run is over: a stage was fatal for the block, or the stage target has
\* been run.
RunFinished(r, target) == r.fatal \/ Len(r.ran) >= StageIndex(target)

\* The slots in use: the outermost job's, and one per running sub-job.
OccupiedSlots(j) == 1 + j.running

\* A sub-job starts only in a free slot.
SlotFree(j, slots) == OccupiedSlots(j) < slots

\* The stage writes its artifact into its block.
WriteArtifact(blocks, id, stage) ==
    [blocks EXCEPT ![id].artifacts = Append(@, stage)]

\* The stage reports a diagnostic against its block.
Report(diags, id, stage) == Append(diags, [block |-> id, stage |-> stage])

\* The driver begins the next stage and submits its sub-jobs to the pool.
StageBegin ==
    /\ pc = "running"
    /\ ~run.staging
    /\ ~RunFinished(run, settings.stage)
    /\ run' = [run EXCEPT !.ran = Append(@, NextStage(run)), !.staging = TRUE]
    /\ \E k \in 0..MaxJobs : jobs' = [pending |-> k, running |-> 0]
    /\ turnLog' = Append(turnLog, NextStage(run))
    /\ UNCHANGED <<pc, exit_code, session, pool, line, command, out, prev>>

\* A submitted sub-job takes a free slot of the pool.
JobStart ==
    /\ pc = "running"
    /\ jobs.pending > 0
    /\ SlotFree(jobs, pool)
    /\ jobs' = [pending |-> jobs.pending - 1, running |-> jobs.running + 1]
    /\ UNCHANGED <<pc, exit_code, session, pool, line, command, run, turnLog,
                   out, prev>>

\* A running sub-job completes and gives its slot back.
JobFinish ==
    /\ pc = "running"
    /\ jobs.running > 0
    /\ jobs' = [jobs EXCEPT !.running = @ - 1]
    /\ UNCHANGED <<pc, exit_code, session, pool, line, command, run, turnLog,
                   out, prev>>

\* All sub-jobs are done and the stage succeeds: its artifact is written.
StageOk ==
    /\ pc = "running"
    /\ run.staging
    /\ jobs = NoJobs
    /\ interactive_blocks' =
          WriteArtifact(interactive_blocks, run.id, run.ran[Len(run.ran)])
    /\ run' = [run EXCEPT !.staging = FALSE]
    /\ UNCHANGED <<pc, exit_code, settings, diagnostics, source_map, pool,
                   line, command, jobs, turnLog, out, prev>>

\* The stage reports a diagnostic that is fatal for the block: no artifact,
\* and the run is abandoned.
StageFatal ==
    /\ pc = "running"
    /\ run.staging
    /\ jobs = NoJobs
    /\ diagnostics' = Report(diagnostics, run.id, run.ran[Len(run.ran)])
    /\ run' = [run EXCEPT !.staging = FALSE, !.fatal = TRUE]
    /\ UNCHANGED <<pc, exit_code, settings, interactive_blocks, source_map,
                   pool, line, command, jobs, turnLog, out, prev>>

\* A return that takes the block of an abandoned run out of the table.
RunReturnRollingBack ==
    /\ pc = "running"
    /\ ~run.staging
    /\ RunFinished(run, settings.stage)
    /\ pc' = "idle"
    /\ turnLog' = Append(turnLog, "return")
    /\ interactive_blocks' =
          IF run.fatal
          THEN SubSeq(interactive_blocks, 1, Len(interactive_blocks) - 1)
          ELSE interactive_blocks
    /\ UNCHANGED <<exit_code, settings, diagnostics, source_map, pool, line,
                   command, run, jobs, out, prev>>

\* execute, lines 157-158 and main, line 86: compiler.run returns the state
\* and the loop reads the next line.
RunReturn ==
    /\ pc = "running"
    /\ ~run.staging
    /\ RunFinished(run, settings.stage)
    /\ pc' = "idle"
    /\ turnLog' = Append(turnLog, "return")
    /\ UNCHANGED <<exit_code, session, pool, line, command, run, jobs, out,
                   prev>>

\* ------------------------------------------------------------ specification

Next ==
    \/ StartupOk
    \/ StartupFatal
    \/ StartupPoolPanic
    \/ ReadInterrupted
    \/ ReadError
    \/ ExecuteEmpty
    \/ ExecuteQuit
    \/ ExecuteClear
    \/ ExecuteClearPanic
    \/ ExecuteVersion
    \/ ExecuteMalformed
    \/ ExecutePipeline
    \/ StageBegin
    \/ JobStart
    \/ JobFinish
    \/ StageOk
    \/ StageFatal
    \/ RunReturn

Spec == Init /\ [][Next]_vars

\* ------------------------------------------------------------ properties

\* The current turn runs, or has run, the pipeline for a command of this kind.
PipelineTurn(kind) == pc \in {"running", "idle"} /\ command.kind = kind

\* How often a step occurs in a turn's log.
Count(log, step) == Cardinality({i \in 1..Len(log) : log[i] = step})

\* Where a step first occurs in a turn's log (0: nowhere).
Position(log, step) ==
    IF \E i \in 1..Len(log) : log[i] = step
    THEN CHOOSE i \in 1..Len(log) : log[i] = step /\ \A j \in 1..(i - 1) : log[j] # step
    ELSE 0

\* The block of the run in flight.
RunBlock == interactive_blocks[run.id]

\* C1: whenever an Evaluate command (a line of code) is dispatched, whatever
\* the turns before it, the pipeline runs with the dump flag off and the
\* stage target Analysis.
C1_EvaluateSettings ==
    PipelineTurn("Code") => settings.dump = FALSE /\ settings.stage = "Analysis"

\* C2: a ShowTree (`:d`) turn, from any prior settings and in particular right
\* after a ShowType (`:t`) turn, runs the pipeline with the dump flag on and
\* the stage target Parse.
C2_ShowTreeSettings ==
    PipelineTurn("Display") => settings.dump = TRUE /\ settings.stage = "Parse"

\* A `:d` turn is running right after a `:t` turn whose settings were dump
\* off, stage Analysis.
C2_Witness ==
    /\ pc = "running"
    /\ command.kind = "Display"
    /\ prev.kind = "Type"
    /\ prev.settings.dump = FALSE
    /\ prev.settings.stage = "Analysis"
    /\ settings.dump = TRUE
    /\ settings.stage = "Parse"

\* C3: a ShowType (`:t`) turn, from any prior settings and in particular right
\* after a ShowTree (`:d`) turn, runs the pipeline with the dump flag off and
\* the stage target Analysis.
C3_ShowTypeSettings ==
    PipelineTurn("Type") => settings.dump = FALSE /\ settings.stage = "Analysis"

\* A `:t` turn is running right after a `:d` turn that had set the dump flag.
C3_Witness ==
    /\ pc = "running"
    /\ command.kind = "Type"
    /\ prev.kind = "Display"
    /\ prev.settings.dump = TRUE
    /\ prev.settings.stage = "Parse"
    /\ settings.dump = FALSE
    /\ settings.stage = "Analysis"

\* The diagnostics the stages of the run in flight have reported so far.
ReportsOfRun ==
    IF run.fatal THEN <<[block |-> run.id, stage |-> run.ran[Len(run.ran)]]>>
    ELSE <<>>

\* C4: in a turn that runs the pipeline the diagnostics are cleared exactly
\* once, before the run, and the diagnostics held during and after the run
\* are exactly the ones this turn's stages reported: none is of an earlier
\* block.
C4_DiagnosticsOfThisTurn ==
    (pc \in {"running", "idle"} /\ command.kind \in PipelineKinds) =>
        /\ Count(turnLog, "clear") = 1
        /\ Position(turnLog, "clear") < Position(turnLog, "run")
        /\ \A i \in 1..Len(turnLog) :
              turnLog[i] \in StageKinds => Position(turnLog, "clear") < i
        /\ \A i \in 1..Len(diagnostics) : diagnostics[i].block = run.id
        /\ diagnostics = ReportsOfRun

\* The second turn has returned with a diagnostic of its own, after a first
\* turn whose Parse stage had reported one.
C4_Witness ==
    /\ pc = "idle"
    /\ command.kind \in PipelineKinds
    /\ run.id = 2
    /\ interactive_blocks[1].artifacts = <<>>
    /\ run.fatal
    /\ Len(diagnostics) = 1

\* C5: a turn that runs the pipeline appends exactly one interactive block,
\* under an id greater than every id before it; no other step adds a block;
\* no step removes a block, changes a block's id or text, or shrinks the
\* source map.
C5_BlocksAppendOnly ==
    [][LET old == interactive_blocks
           new == interactive_blocks'
           dispatched == pc = "idle" /\ command'.kind \in PipelineKinds
       IN  /\ Len(new) >= Len(old)
           /\ \A i \in 1..Len(old) :
                 new[i].id = old[i].id /\ new[i].text = old[i].text
           /\ Len(source_map') >= Len(source_map)
           /\ SubSeq(source_map', 1, Len(source_map)) = source_map
           /\ dispatched =>
                 /\ Len(new) = Len(old) + 1
                 /\ \A i \in 1..Len(old) : new[Len(new)].id > old[i].id
                 /\ new[Len(new)].text = command'.expr
           /\ ~dispatched => Len(new) = Len(old)
      ]_vars

\* Two turns have each registered a block; the first one's artifacts were
\* written in place and the second id is the greater.
C5_Witness ==
    /\ Len(interactive_blocks) = 2
    /\ interactive_blocks[2].id > interactive_blocks[1].id
    /\ interactive_blocks[1].artifacts # <<>>
    /\ Len(source_map) = 2
    /\ pc = "idle"

\* C6: a turn whose line is empty or only whitespace changes nothing of the
\* session state, does not reach the classifier and starts no pipeline run.
C6_BlankLineIsNoOp ==
    [][(pc = "idle" /\ line' \in Lines /\ IsBlank(line')) =>
           /\ UNCHANGED session
           /\ pc' = "idle"
           /\ turnLog' = <<>>
      ]_vars

\* C7: while the outermost job of a run waits for sub-jobs it has submitted,
\* the pool can make progress on them: a slot is free for a waiting sub-job
\* or a sub-job is running.
C7_NestedJobsProgress ==
    (pc = "running" /\ jobs.pending > 0) =>
        SlotFree(jobs, pool) \/ jobs.running > 0

\* C8: once built, the pool has exactly worker_count + 1 slots, and no turn
\* rebuilds or resizes it.
C8_PoolSize ==
    /\ [](pc \in {"idle", "running", "exited"} => pool = settings.worker_count + 1)
    /\ [][pc # "start" => pool' = pool]_vars

\* Two turns have run on a pool of two slots built for one worker.
C8_Witness ==
    /\ pc = "idle"
    /\ Len(interactive_blocks) = 2
    /\ settings.worker_count = 1
    /\ pool = 2

\* C9: the pool built at start-up has at least two slots, whatever the
\* configured worker count.
C9_AtLeastTwoSlots ==
    pc \in {"idle", "running", "exited"} => pool >= 2

\* C10: a run executes the stages in stage order from the first, none beyond
\* the stage target; a stage begins only when every stage before it has
\* written its artifact; after a fatal diagnostic no further stage begins;
\* a run that returns without one has run every stage through the target;
\* and a run only ever ends by returning to the read loop.
C10_StagesInOrder ==
    /\ [](command.kind \in PipelineKinds =>
            /\ run.ran = SubSeq(StageOrder, 1, Len(run.ran))
            /\ Len(run.ran) <= StageIndex(settings.stage)
            /\ \A i \in 1..(Len(run.ran) - 1) :
                  \E k \in 1..Len(RunBlock.artifacts) :
                     RunBlock.artifacts[k] = run.ran[i]
            /\ RunBlock.artifacts = SubSeq(run.ran, 1, Len(RunBlock.artifacts))
            /\ run.fatal =>
                  /\ ~run.staging
                  /\ diagnostics[Len(diagnostics)].stage = run.ran[Len(run.ran)]
                  /\ Len(RunBlock.artifacts) = Len(run.ran) - 1
            /\ (pc = "idle" /\ ~run.fatal) =>
                  Len(run.ran) = StageIndex(settings.stage))
    /\ [][pc = "running" => pc' \in {"running", "idle"}]_vars

\* After a first turn abandoned at Desugar, a second turn has run Parse,
\* Desugar and Analysis and returned.
C10_Witness ==
    /\ pc = "idle"
    /\ run.id = 2
    /\ interactive_blocks[1].artifacts = <<"Parse">>
    /\ ~run.fatal
    /\ run.ran = <<"Parse", "Desugar", "Analysis">>
    /\ RunBlock.artifacts = run.ran

\* C11: the settings handed to the pipeline tell an Evaluate turn from a
\* ShowType turn (evaluation is enabled for the one and not for the other):
\* a line of code dispatched right after a `:t` turn never runs with the
\* very settings the `:t` turn ran with.
C11_SettingsDistinguish ==
    (pc = "running" /\ command.kind = "Code" /\ prev.kind = "Type")
        => settings # prev.settings

\* C12: turns never overlap.  A step that reads a line, classifies a command,
\* registers a block or starts a run is taken only at the read loop, with no
\* run and no sub-job in flight; while a run is in flight it is the run of
\* the block registered last, and only that block's artifacts are written.
C12_TurnsDoNotOverlap ==
    /\ [](pc = "running" => run.id = Len(interactive_blocks))
    /\ [][(\/ line' # line
           \/ command' # command
           \/ prev' # prev
           \/ run'.id # run.id
           \/ Len(interactive_blocks') # Len(interactive_blocks))
            => (pc = "idle" /\ ~run.staging /\ jobs = NoJobs)]_vars
    /\ [][\A i \in 1..Len(interactive_blocks) :
             interactive_blocks'[i] # interactive_blocks[i]
                => (pc = "running" /\ i = run.id)]_vars

\* The second turn's run has a sub-job running after the first turn's run
\* wrote its artifacts and returned.
C12_Witness ==
    /\ pc = "running"
    /\ run.id = 2
    /\ interactive_blocks[1].artifacts # <<>>
    /\ jobs.running > 0

\* C13: a malformed command prints one report and does nothing else: the
\* session state and the last run are left as they were, no block is
\* registered, no run starts, and the loop is back at reading a line.
C13_MalformedIsNoOp ==
    [][(pc = "idle" /\ command'.kind = "Malformed") =>
           /\ UNCHANGED session
           /\ UNCHANGED <<run, jobs, pool, exit_code>>
           /\ out' = <<"report">>
           /\ turnLog' = <<"classify">>
           /\ pc' = "idle"
      ]_vars

\* `:t` without an expression was reported after a turn that left a block,
\* a diagnostic and the dump flag set.
C13_Witness ==
    /\ pc = "idle"
    /\ command.kind = "Malformed"
    /\ line = <<":", "t">>
    /\ out = <<"report">>
    /\ Len(interactive_blocks) = 1
    /\ Len(diagnostics) = 1
    /\ settings.dump = TRUE

\* C14: a block whose run reported a stage diagnostic stays registered under
\* its id with its text, without the artifact of the stage that failed and
\* without the artifact of the stage target; the abandoned run can return,
\* and when it does the loop is back at reading a line with the block table
\* as it was.
C14_ErroredBlockStays ==
    /\ [](run.fatal =>
            /\ run.id \in 1..Len(interactive_blocks)
            /\ RunBlock.id = run.id
            /\ RunBlock.text = source_map[run.id].text
            /\ \A k \in 1..Len(RunBlock.artifacts) :
                  /\ RunBlock.artifacts[k] # run.ran[Len(run.ran)]
                  /\ RunBlock.artifacts[k] # settings.stage
            /\ pc = "running" => ENABLED RunReturn)
    /\ [][(pc = "running" /\ run.fatal) =>
             (pc' = "idle" /\ UNCHANGED interactive_blocks)]_vars

\* The run of block 1 was abandoned at Desugar; the loop went on to a `:v`
\* turn and the block is still there with its Parse artifact only.
C14_Witness ==
    /\ pc = "idle"
    /\ run.fatal
    /\ run.id = 1
    /\ command.kind = "Version"
    /\ Len(interactive_blocks) = 1
    /\ interactive_blocks[1].artifacts = <<"Parse">>
    /\ Len(diagnostics) = 1

\* C15: a read failure other than an interrupt or end of input prints one
\* report and nothing else happens: no command is classified or dispatched,
\* the session state and the last run are as they were, the process goes on
\* and the loop is back at reading a line.
C15_ReadErrorIsRecovered ==
    [][(pc = "idle" /\ turnLog' = <<"read_error">>) =>
           /\ UNCHANGED session
           /\ UNCHANGED <<run, jobs, pool>>
           /\ command' = NoCommand
           /\ out' = <<"report">>
           /\ pc' = "idle"
           /\ exit_code' = -1
      ]_vars

\* A read failed after a turn that left a block and a diagnostic, and the
\* loop is reading again.
C15_Witness ==
    /\ pc = "idle"
    /\ turnLog = <<"read_error">>
    /\ out = <<"report">>
    /\ exit_code = -1
    /\ Len(interactive_blocks) = 1
    /\ Len(diagnostics) = 1

\* C16: an interrupt or end of input at the read ends the loop: a farewell
\* is printed, the exit status is 0, no block is registered, no settings are
\* written and no run starts in that turn, and nothing happens afterwards.
C16_InterruptEndsLoop ==
    /\ [][(pc = "idle" /\ turnLog' \in {<<"Interrupted">>, <<"Eof">>}) =>
             /\ pc' = "exited"
             /\ exit_code' = 0
             /\ out' = <<"Exiting!">>
             /\ command' = NoCommand
             /\ UNCHANGED session
             /\ UNCHANGED <<run, jobs, pool>>
         ]_vars
    /\ [][pc = "exited" => UNCHANGED vars]_vars

\* End of input ended a session that had registered a block.
C16_Witness ==
    /\ pc = "exited"
    /\ turnLog = <<"Eof">>
    /\ out = <<"Exiting!">>
    /\ exit_code = 0
    /\ Len(interactive_blocks) = 1

\* The state is final: the process has ended.
Terminated == pc \in {"exited", "fatal", "panicked"}

\* C17: the loop goes from reading a line to the dispatch of its command and
\* back to reading.  Only the dispatch of Quit ends the process, with exit
\* status 0 and nothing after it; the dispatch of every other command leaves
\* the loop reading (or in the run it started, which returns to reading).
C17_OnlyQuitIsTerminal ==
    /\ [][(pc = "idle" /\ command'.kind = "Quit") =>
             (pc' = "exited" /\ exit_code' = 0 /\ UNCHANGED session)]_vars
    /\ [][(pc = "idle" /\ command'.kind \notin {"None", "Quit"}) =>
             (pc' \in {"idle", "running"} /\ exit_code' = -1)]_vars
    /\ [][pc = "running" => pc' \in {"running", "idle"}]_vars
    /\ [][Terminated => UNCHANGED vars]_vars

\* C18: the ShowVersion and ClearScreen commands leave the session state as
\* it was: no block is registered, neither the settings nor the diagnostics
\* are written and no run starts; `:v` prints the version line and nothing
\* else, and the loop is back at reading a line.
C18_VersionAndClearKeepSession ==
    [][(pc = "idle" /\ command'.kind \in {"Version", "Clear"}) =>
           /\ UNCHANGED session
           /\ UNCHANGED <<run, jobs, pool>>
           /\ turnLog' = <<"classify">>
           /\ pc' # "running"
           /\ command'.kind = "Version" =>
                 (out' = <<"Version">> /\ pc' = "idle" /\ exit_code' = -1)
      ]_vars

\* `:v` printed the version after a `:d` turn that left a block, a
\* diagnostic and the dump flag set.
C18_Witness ==
    /\ pc = "idle"
    /\ command.kind = "Version"
    /\ out = <<"Version">>
    /\ Len(interactive_blocks) = 1
    /\ Len(diagnostics) = 1
    /\ settings.dump = TRUE
    /\ settings.stage = "Parse"

\* The process ended during start-up: before the pool was built.
StartupFailed == Terminated /\ pool = 0

\* C19: a start-up step that fails (entry point, workspace, worker pool) is
\* reported through the fatal-error sink and the process exits non-zero,
\* with no banner printed, no line read and no session in the read loop.
C19_StartupFailureIsFatalReport ==
    StartupFailed =>
        /\ pc = "fatal"
        /\ Head(out) = "fatal report"
        /\ exit_code # 0
        /\ \A i \in 1..Len(out) : out[i] # "Version"
        /\ line = NoLine
        /\ interactive_blocks = <<>>

\* C20: a turn that runs the pipeline registers the block, writes the
\* settings, clears the diagnostics and enters the run, in this order and
\* once each; the run is for the block registered in that turn.  Every
\* registration comes with one run and every run with one registration, with
\* run ids going up by one: as many runs as blocks, no id run twice.
C20_OneRunPerBlock ==
    /\ []((pc \in {"running", "idle"} /\ command.kind \in PipelineKinds) =>
            /\ SubSeq(turnLog, 1, 5) =
                  <<"classify", "register", "settings", "clear", "run">>
            /\ Count(turnLog, "register") = 1
            /\ Count(turnLog, "run") = 1
            /\ RunBlock.id = run.id
            /\ RunBlock.text = command.expr)
    /\ [](run.id = Len(interactive_blocks))
    /\ [][run'.id # run.id =>
             /\ pc = "idle" /\ pc' = "running"
             /\ run'.id = run.id + 1
             /\ Len(interactive_blocks') = Len(interactive_blocks) + 1
             /\ run'.id = interactive_blocks'[Len(interactive_blocks')].id
         ]_vars
    /\ [][Len(interactive_blocks') # Len(interactive_blocks) =>
             run'.id # run.id]_vars

\* The second turn's run, for block 2, has begun its first stage after the
\* run of block 1 returned.
C20_Witness ==
    /\ pc = "running"
    /\ run.id = 2
    /\ Len(interactive_blocks) = 2
    /\ interactive_blocks[1].artifacts # <<>>
    /\ turnLog = <<"classify", "register", "settings", "clear", "run", "Parse">>

====
